---------------------------- MODULE Spec2Model ----------------------------
(***************************************************************************)
(* The PIN keyboard of model_mercury                                       *)
(* (src/core/embed/rust/src/ui/model_mercury/component/keyboard/pin.rs):   *)
(* PinKeyboard (the orchestrating component) and PinDots (the PIN buffer   *)
(* and its indicator).                                                     *)
(*                                                                         *)
(* Four specifications:                                                    *)
(*   Spec          the keyboard driven by Attach, Timer and Touch events,  *)
(*                 its buttons answering as the button component does;     *)
(*   SpecDispatch  PinKeyboard::event with the answers of its children     *)
(*                 left open (any combination of children may report a     *)
(*                 click for one event);                                   *)
(*   SpecPinDots   PinDots::push / pop / clear called in any order;        *)
(*   SpecLive      the keyboard with a timer service that delivers every   *)
(*                 timer requested (weak fairness), attached any number of *)
(*                 times.                                                  *)
(*                                                                         *)
(* Button, Maybe, EventCtx and random::shuffle are not part of pin.rs;     *)
(* they are modelled at their interface.  ShortString is heapless'         *)
(* String<50>: push_str appends the whole text or, when it does not fit,   *)
(* changes nothing and returns Err.                                        *)
(***************************************************************************)
EXTENDS Integers, Sequences, FiniteSets

VARIABLES
    new_args,         \* the arguments PinKeyboard::new was called with
    allow_cancel,     \* PinKeyboard.allow_cancel
    major_warning,    \* PinKeyboard.major_warning.is_some()
    warning_timer,    \* PinKeyboard.warning_timer: <<>> is None, <<t>> is Some(t)
    digits,           \* PinDots.digits
    display_digits,   \* PinDots.display_digits
    digit_enabled,    \* digit_btns[i] is enabled
    erase_visible,    \* erase_btn (Maybe) is visible
    erase_enabled,    \* erase_btn's inner button is enabled
    cancel_visible,   \* cancel_btn (Maybe) is visible
    cancel_enabled,   \* cancel_btn's inner button is enabled
    confirm_enabled,  \* confirm_btn is enabled
    labels,           \* labels[i]: the digit shown on digit_btns[i]
    issued,           \* number of timers EventCtx handed to the keyboard
    pending,          \* the keyboard's timers that were requested and not yet delivered
    event,            \* the event last given to PinKeyboard::event
    reports,          \* what each child answered (would answer) to that event
    msg,              \* what PinKeyboard::event returned for it
    touch,            \* <<p>> while a touch that started at p is down, else <<>>
    call              \* SpecPinDots: the PinDots method last called

vars == <<new_args, allow_cancel, major_warning, warning_timer, digits,
          display_digits, digit_enabled, erase_visible, erase_enabled,
          cancel_visible, cancel_enabled, confirm_enabled, labels, issued,
          pending, event, reports, msg, touch, call>>

-----------------------------------------------------------------------------
(* Program constants.                                                      *)

MAX_LENGTH == 50
MAX_VISIBLE_DOTS == 18
MAX_VISIBLE_DIGITS == 18
DIGIT_COUNT == 10
GRID_ROWS == 4
GRID_COLS == 3

(* Bounds of the exploration.                                              *)

\* Timers the keyboard may request in one run.
MaxTimers == 2
\* Digit buttons other than digit_btns[0] are clicked (texts other than
\* the first are pushed) only while the buffer is shorter than this.
MaxVaried == 1

BtnIdx == 0 .. (DIGIT_COUNT - 1)

-----------------------------------------------------------------------------
(* PinDots: the buffer.                                                    *)

is_empty(d) == Len(d) = 0

\* Mutant: the comparison is off by one.
is_full_OffByOne(d) == Len(d) > MAX_LENGTH

is_full(d) == Len(d) >= MAX_LENGTH

PinDots_clear(d) == << >>

\* Mutant: the text is appended without a capacity check.
PinDots_push_Unchecked(d, text) == d \o text

\* Mutant: the part of the text that fits is kept.
PinDots_push_Truncating(d, text) ==
    IF Len(d) + Len(text) > MAX_LENGTH
        THEN SubSeq(d \o text, 1, MAX_LENGTH)
        ELSE d \o text

\* self.digits.push_str(text): Err, and nothing appended, when the text
\* does not fit; push drops the error.
PinDots_push(d, text) ==
    IF Len(d) + Len(text) > MAX_LENGTH THEN d ELSE d \o text

\* Mutant: the first character is removed instead of the last.
PinDots_pop_First(d) ==
    IF Len(d) = 0 THEN d ELSE SubSeq(d, 2, Len(d))

\* self.digits.pop(): None on an empty string.
PinDots_pop(d) ==
    IF Len(d) = 0 THEN d ELSE SubSeq(d, 1, Len(d) - 1)

pin(d) == d

-----------------------------------------------------------------------------
(* Layout: PinKeyboard::place.  Grid cells are numbered in reading order;  *)
(* two more positions stand for the header and for the spacing between     *)
(* the cells.                                                              *)

GridCells == GRID_ROWS * GRID_COLS
HeaderPos == GridCells
GapPos == GridCells + 1

RowCol(row, col) == row * GRID_COLS + col

EraseCancelCell == RowCol(3, 0)

ConfirmCell == RowCol(3, 2)

\* Mutant: the tenth digit button is placed in the cell after the ninth.
DigitCell_NoSkip(i) == i

DigitCell(i) == IF i < 9 THEN i ELSE i + 1

TextboxArea == {HeaderPos}

-----------------------------------------------------------------------------
(* PinKeyboard::new and generate_digit_buttons.                            *)

\* random::shuffle: some permutation of "0".."9"; two of them are explored.
Layouts ==
    { [i \in BtnIdx |-> i], [i \in BtnIdx |-> (i + 3) % DIGIT_COUNT] }

NoEvent == [kind |-> "None", pos |-> 0, token |-> 0]

NoReports == [confirm |-> FALSE, cancel |-> FALSE, erase |-> "None", digits |-> {}]

NoCall == [name |-> "none", text |-> << >>]

New(warning, cancel, layout) ==
    /\ new_args = [major_warning |-> warning, allow_cancel |-> cancel]
    /\ allow_cancel = cancel
    /\ major_warning = warning
    /\ warning_timer = << >>
    /\ digits = << >>
    /\ display_digits = FALSE
    /\ digit_enabled = [i \in BtnIdx |-> TRUE]
    /\ erase_visible = FALSE
    /\ erase_enabled = FALSE
    /\ cancel_visible = cancel
    /\ cancel_enabled = TRUE
    /\ confirm_enabled = FALSE
    /\ labels = layout

Init ==
    /\ \E warning \in BOOLEAN, cancel \in BOOLEAN, layout \in Layouts :
          New(warning, cancel, layout)
    /\ issued = 0
    /\ pending = {}
    /\ event = NoEvent
    /\ reports = NoReports
    /\ msg = "None"
    /\ touch = << >>
    /\ call = NoCall

-----------------------------------------------------------------------------
(* PinKeyboard::pin_modified: the controls as a function of the buffer.    *)

\* Mutant: the digit buttons stay enabled when the buffer is full.
DigitsEnabled_Always(d) == [i \in BtnIdx |-> TRUE]

DigitsEnabled(d) == [i \in BtnIdx |-> ~is_full(d)]

EraseShown(d) == ~is_empty(d)

EraseEnabled(d) == ~is_empty(d)

\* Mutant: cancel is shown whenever it is permitted.
CancelShown_IgnoresEmpty(d, allow) == allow

\* Mutant: cancel is shown on every empty buffer, permitted or not.
CancelShown_IgnoresAllow(d, allow) == is_empty(d)

CancelShown(d, allow) == is_empty(d) /\ allow

CancelEnabled(d) == is_empty(d)

\* Mutant: confirm is enabled by every modification.
ConfirmEnabled_Always(d) == TRUE

ConfirmEnabled(d) == ~is_empty(d)

pin_modified(d) ==
    /\ digit_enabled' = DigitsEnabled(d)
    /\ erase_visible' = EraseShown(d)
    /\ erase_enabled' = EraseEnabled(d)
    /\ cancel_visible' = CancelShown(d, allow_cancel)
    /\ cancel_enabled' = CancelEnabled(d)
    /\ confirm_enabled' = ConfirmEnabled(d)

ControlsUnchanged ==
    UNCHANGED <<digit_enabled, erase_visible, erase_enabled, cancel_visible,
                cancel_enabled, confirm_enabled>>

-----------------------------------------------------------------------------
(* The children's answers to an event.                                     *)

\* Button::event: an enabled button is pressed by the touch that starts
\* inside its area and reports Clicked when that touch is released inside
\* its area.
ButtonClicked(enabled, cell, ev) ==
    enabled /\ ev.kind = "TouchEnd" /\ ev.pos = cell /\ touch = <<cell>>

\* The touch the buttons have seen start and not yet end.
TouchAfter(t, ev) ==
    IF ev.kind = "TouchStart" THEN <<ev.pos>>
    ELSE IF ev.kind = "TouchEnd" THEN << >>
    ELSE t

\* Maybe::event: a hidden component is not given the event.
MaybeClicked(visible, enabled, cell, ev) ==
    visible /\ ButtonClicked(enabled, cell, ev)

\* The erase button was built with_long_press: a press held past
\* ERASE_HOLD_DURATION is reported as LongPressed instead of Clicked.
Reports(ev, held) ==
    [ confirm |-> ButtonClicked(confirm_enabled, ConfirmCell, ev),
      cancel  |-> MaybeClicked(cancel_visible, cancel_enabled, EraseCancelCell, ev),
      erase   |-> IF MaybeClicked(erase_visible, erase_enabled, EraseCancelCell, ev)
                  THEN (IF held THEN "LongPressed" ELSE "Clicked")
                  ELSE "None",
      digits  |-> {i \in BtnIdx : ButtonClicked(digit_enabled[i], DigitCell(i), ev)} ]

-----------------------------------------------------------------------------
(* PinDots::event: the reveal flag.                                        *)

\* Mutant: a release outside the indicator leaves the flag.
PinDotsEvent_ResetInside(shown, ev) ==
    IF ev.kind = "TouchStart" THEN (IF ev.pos \in TextboxArea THEN TRUE ELSE shown)
    ELSE IF ev.kind = "TouchEnd" THEN (IF ev.pos \in TextboxArea THEN FALSE ELSE shown)
    ELSE shown

PinDotsEvent(shown, ev) ==
    IF ev.kind = "TouchStart" THEN (IF ev.pos \in TextboxArea THEN TRUE ELSE shown)
    ELSE IF ev.kind = "TouchEnd" THEN FALSE
    ELSE shown

-----------------------------------------------------------------------------
(* PinKeyboard::event.                                                     *)

\* Mutant: every Attach arms the timer, warning or not.
AttachArms_Always(ev, warning) == ev.kind = "Attach"

\* Event::Attach(_) if self.major_warning.is_some()
AttachArms(ev, warning) == ev.kind = "Attach" /\ warning

\* Mutant: any timer counts once a handle is stored.
TimerMatches_AnyToken(ev, timer) == ev.kind = "Timer" /\ timer # << >>

\* Event::Timer(token) if Some(token) == self.warning_timer
TimerMatches(ev, timer) == ev.kind = "Timer" /\ <<ev.token>> = timer

\* Mutant: the Timer arm leaves the warning in place.
WarningAfter_Kept(fires, warning) == warning

\* self.major_warning = None, in the Timer arm only.
WarningAfter(fires, warning) == IF fires THEN FALSE ELSE warning

\* Mutant: the handle of the requested timer is not stored.
TimerAfter_NotStored(arms, token, timer) == timer

\* self.warning_timer = Some(ctx.request_timer(..)), in the Attach arm only.
TimerAfter(arms, token, timer) == IF arms THEN <<token>> ELSE timer

\* Mutant: an Attach turns the labels round by one button.
DigitBtnsAfter_Reshuffled(ev, l) ==
    IF ev.kind = "Attach" THEN [i \in BtnIdx |-> l[(i + 1) % DIGIT_COUNT]] ELSE l

\* The digit buttons keep the content they were generated with.
DigitBtnsAfter(ev, l) == l

Min(S) == CHOOSE x \in S : \A y \in S : x <= y

MinOf(a, b) == IF a <= b THEN a ELSE b

\* Mutant: cancel is asked before confirm.
Dispatch_CancelFirst(rep) ==
    IF rep.cancel THEN [branch |-> "cancel", idx |-> 0]
    ELSE IF rep.confirm THEN [branch |-> "confirm", idx |-> 0]
    ELSE IF rep.erase = "Clicked" THEN [branch |-> "pop", idx |-> 0]
    ELSE IF rep.erase = "LongPressed" THEN [branch |-> "clear", idx |-> 0]
    ELSE IF rep.digits # {} THEN [branch |-> "push", idx |-> Min(rep.digits)]
    ELSE [branch |-> "none", idx |-> 0]

\* The order in which the children are asked; the first answer returns.
Dispatch(rep) ==
    IF rep.confirm THEN [branch |-> "confirm", idx |-> 0]
    ELSE IF rep.cancel THEN [branch |-> "cancel", idx |-> 0]
    ELSE IF rep.erase = "Clicked" THEN [branch |-> "pop", idx |-> 0]
    ELSE IF rep.erase = "LongPressed" THEN [branch |-> "clear", idx |-> 0]
    ELSE IF rep.digits # {} THEN [branch |-> "push", idx |-> Min(rep.digits)]
    ELSE [branch |-> "none", idx |-> 0]

Returned(branch) ==
    IF branch = "confirm" THEN "Confirmed"
    ELSE IF branch = "cancel" THEN "Cancelled"
    ELSE "None"

\* Mutant: the buffer is wiped when confirm is clicked.
Mutated_WipeOnConfirm(branch, idx, d) ==
    IF branch = "pop" THEN PinDots_pop(d)
    ELSE IF branch \in {"clear", "confirm"} THEN PinDots_clear(d)
    ELSE IF branch = "push" THEN PinDots_push(d, <<labels[idx]>>)
    ELSE d

\* Mutant: a click on erase wipes the buffer as a long press does.
Mutated_ClickClears(branch, idx, d) ==
    IF branch \in {"pop", "clear"} THEN PinDots_clear(d)
    ELSE IF branch = "push" THEN PinDots_push(d, <<labels[idx]>>)
    ELSE d

Mutated(branch, idx, d) ==
    IF branch = "pop" THEN PinDots_pop(d)
    ELSE IF branch = "clear" THEN PinDots_clear(d)
    ELSE IF branch = "push" THEN PinDots_push(d, <<labels[idx]>>)
    ELSE d

\* The handler; token is what ctx.request_timer would return, count the
\* number of timers requested once it has.
KbdEventWith(ev, rep, token, count) ==
    LET arms == AttachArms(ev, major_warning)
        fires == TimerMatches(ev, warning_timer)
        delivered == IF ev.kind = "Timer" THEN {ev.token} ELSE {}
        d == Dispatch(rep)
    IN  /\ warning_timer' = TimerAfter(arms, token, warning_timer)
        /\ issued' = IF arms THEN count ELSE issued
        /\ pending' = (pending \ delivered) \cup (IF arms THEN {token} ELSE {})
        /\ major_warning' = WarningAfter(fires, major_warning)
        /\ display_digits' = PinDotsEvent(display_digits, ev)
        /\ msg' = Returned(d.branch)
        /\ digits' = Mutated(d.branch, d.idx, digits)
        /\ IF d.branch \in {"pop", "clear", "push"}
              THEN pin_modified(digits')
              ELSE ControlsUnchanged
        /\ event' = ev
        /\ reports' = rep
        /\ touch' = TouchAfter(touch, ev)
        /\ labels' = DigitBtnsAfter(ev, labels)
        /\ UNCHANGED <<new_args, allow_cancel, call>>

\* The handler with the timers numbered in the order they are requested.
KbdEvent(ev, rep) ==
    /\ AttachArms(ev, major_warning) => issued < MaxTimers
    /\ KbdEventWith(ev, rep, issued + 1, issued + 1)

-----------------------------------------------------------------------------
(* Spec: the events the keyboard is given.                                 *)

AttachEvent == [kind |-> "Attach", pos |-> 0, token |-> 0]

TimerEvent(t) == [kind |-> "Timer", pos |-> 0, token |-> t]

TouchStartEvent(p) == [kind |-> "TouchStart", pos |-> p, token |-> 0]

TouchEndEvent(p) == [kind |-> "TouchEnd", pos |-> p, token |-> 0]

\* The positions touched: the first and the last digit button, the
\* erase/cancel cell, the confirm cell, the header and the spacing.
TouchPositions ==
    {DigitCell(0), DigitCell(DIGIT_COUNT - 1), EraseCancelCell, ConfirmCell,
     HeaderPos, GapPos}

\* The positions where a touch starts.
StartPositions == TouchPositions

Varied(d, idxs) == idxs \subseteq {0} \/ Len(d) < MaxVaried

Attach == KbdEvent(AttachEvent, Reports(AttachEvent, FALSE))

\* Token 0 is a timer of another component.
Timer ==
    \E t \in pending \cup {0} :
        KbdEvent(TimerEvent(t), Reports(TimerEvent(t), FALSE))

\* The touch events come in pairs: a touch starts, then it ends.
TouchStart ==
    \E p \in StartPositions :
        /\ touch = << >>
        /\ KbdEvent(TouchStartEvent(p), Reports(TouchStartEvent(p), FALSE))

\* A touch that started at p ends where it started or in the spacing.
EndPositions(p) == {p, GapPos}

TouchEnd ==
    /\ touch # << >>
    /\ \E p \in EndPositions(touch[1]), held \in BOOLEAN :
        LET rep == Reports(TouchEndEvent(p), held)
        IN  /\ Varied(digits, rep.digits)
            /\ KbdEvent(TouchEndEvent(p), rep)

Next == Attach \/ Timer \/ TouchStart \/ TouchEnd

Spec == Init /\ [][Next]_vars

-----------------------------------------------------------------------------
(* SpecLive: the timer service delivers every timer it was asked for. The  *)
(* keyboard may be attached without end: a token is free again once its    *)
(* timer has been delivered, which stands for a token never seen before,   *)
(* since the keyboard compares tokens with the one it stored and with      *)
(* nothing else. The PIN stays short; any number of touches is made.       *)

MaxLiveLen == 2

\* The tokens ctx.request_timer can return: those of no outstanding timer
\* and not the one stored.
FreeTokens ==
    (1 .. MaxTimers) \ (pending \cup {warning_timer[k] : k \in DOMAIN warning_timer})

LiveAttach ==
    IF AttachArms(AttachEvent, major_warning)
        THEN /\ FreeTokens # {}
             /\ KbdEventWith(AttachEvent, Reports(AttachEvent, FALSE),
                             Min(FreeTokens), MinOf(issued + 1, MaxTimers))
        ELSE KbdEventWith(AttachEvent, Reports(AttachEvent, FALSE), 0, issued)

\* The timer service delivers timer t, which the keyboard requested.
DeliverTimer(t) ==
    /\ t \in pending
    /\ KbdEventWith(TimerEvent(t), Reports(TimerEvent(t), FALSE), 0, issued)

LiveTimer == \E t \in 1 .. MaxTimers : DeliverTimer(t)

\* A timer of another component.
LiveStrayTimer ==
    KbdEventWith(TimerEvent(0), Reports(TimerEvent(0), FALSE), 0, issued)

LiveTouchEnd == TouchEnd /\ Len(digits') <= MaxLiveLen

NextLive == LiveAttach \/ LiveTimer \/ LiveStrayTimer \/ TouchStart \/ LiveTouchEnd

SpecLive ==
    /\ Init
    /\ [][NextLive]_vars
    /\ \A t \in 1 .. MaxTimers : WF_vars(DeliverTimer(t))

-----------------------------------------------------------------------------
(* PinKeyboard::render: the children that are drawn.                       *)

Render ==
    (IF erase_visible THEN {"erase_btn"} ELSE {})
    \cup {"textbox_pad", "confirm_btn", "digit_btns"}
    \cup (IF is_empty(digits)
            THEN (IF major_warning THEN {"major_warning"} ELSE {"major_prompt"})
                 \cup {"minor_prompt"}
                 \cup (IF cancel_visible THEN {"cancel_btn"} ELSE {})
            ELSE {"textbox"})

-----------------------------------------------------------------------------
(* PinDots::render: the indicator.                                         *)

Repeat(x, k) == [i \in 1 .. k |-> x]

\* Mutant: the small leftmost dot is already drawn at MAX_VISIBLE_DOTS + 1.
render_dots_EarlyOverflow(n) ==
    LET dots_visible == MinOf(n, MAX_VISIBLE_DOTS)
        small == IF n > MAX_VISIBLE_DOTS THEN <<"overflow">> ELSE << >>
        grey == IF n > MAX_VISIBLE_DOTS THEN <<"dimmed">> ELSE << >>
        digit_idx == Len(small) + Len(grey)
    IN  [ twitch |-> n > MAX_VISIBLE_DOTS + 1 /\ (n + 1) % 2 = 0,
          glyphs |-> small \o grey \o Repeat("bullet", dots_visible - digit_idx) ]

\* render_dots: the glyphs drawn from left to right for n digits: the
\* small grey dot ("overflow"), the small dot in the text colour
\* ("dimmed"), the bullets; twitch: the row starts TWITCH further right.
render_dots(n) ==
    LET dots_visible == MinOf(n, MAX_VISIBLE_DOTS)
        small == IF n > MAX_VISIBLE_DOTS + 1 THEN <<"overflow">> ELSE << >>
        grey == IF n > MAX_VISIBLE_DOTS THEN <<"dimmed">> ELSE << >>
        digit_idx == Len(small) + Len(grey)
    IN  [ twitch |-> n > MAX_VISIBLE_DOTS + 1 /\ (n + 1) % 2 = 0,
          glyphs |-> small \o grey \o Repeat("bullet", dots_visible - digit_idx) ]

\* Mutant: the window starts one character late.
render_digits_OffByOne(d) ==
    IF Len(d) <= MAX_VISIBLE_DIGITS THEN d
    ELSE SubSeq(d, (Len(d) - MAX_VISIBLE_DIGITS) + 2, Len(d))

\* render_digits: the text drawn; &self.digits[offset..] is the
\* characters from index offset (counted from 0) to the end.
render_digits(d) ==
    IF Len(d) <= MAX_VISIBLE_DIGITS THEN d
    ELSE LET offset == IF Len(d) >= MAX_VISIBLE_DIGITS
                          THEN Len(d) - MAX_VISIBLE_DIGITS ELSE 0
         IN  SubSeq(d, offset + 1, Len(d))

\* PinDots::render: the digits while the indicator is touched, else the dots.
PinDotsRender ==
    IF display_digits
        THEN [mode |-> "digits", text |-> render_digits(digits)]
        ELSE [mode |-> "dots", dots |-> render_dots(Len(digits))]

-----------------------------------------------------------------------------
(* SpecDispatch: PinKeyboard::event with its children as black boxes: for  *)
(* one event any of them may answer with a click.                          *)

FreeReports ==
    [ confirm : BOOLEAN,
      cancel  : BOOLEAN,
      erase   : {"None", "Clicked", "LongPressed"},
      digits  : SUBSET {0, DIGIT_COUNT - 1} ]

DispatchAny ==
    \E rep \in FreeReports :
        /\ Varied(digits, rep.digits)
        /\ KbdEvent(TouchEndEvent(ConfirmCell), rep)

NextDispatch == DispatchAny

SpecDispatch == Init /\ [][NextDispatch]_vars

-----------------------------------------------------------------------------
(* SpecPinDots: the buffer's methods called in any order, with texts of    *)
(* one and of two characters.                                              *)

PushTexts == { <<1>>, <<2>>, <<3, 4>> }

KeyboardUnchanged ==
    UNCHANGED <<new_args, allow_cancel, major_warning, warning_timer,
                display_digits, digit_enabled, erase_visible, erase_enabled,
                cancel_visible, cancel_enabled, confirm_enabled, labels,
                issued, pending, event, reports, msg, touch>>

PdPush ==
    \E text \in PushTexts :
        /\ \/ text = <<1>>
           \/ Len(digits) < MaxVaried
           \/ Len(digits) + Len(text) > MAX_LENGTH
        /\ digits' = PinDots_push(digits, text)
        /\ call' = [name |-> "push", text |-> text]
        /\ KeyboardUnchanged

PdPop ==
    /\ digits' = PinDots_pop(digits)
    /\ call' = [name |-> "pop", text |-> << >>]
    /\ KeyboardUnchanged

PdClear ==
    /\ digits' = PinDots_clear(digits)
    /\ call' = [name |-> "clear", text |-> << >>]
    /\ KeyboardUnchanged

NextPinDots == PdPush \/ PdPop \/ PdClear

SpecPinDots == Init /\ [][NextPinDots]_vars

-----------------------------------------------------------------------------
(* The claims.                                                             *)

Controls ==
    <<digit_enabled, erase_visible, erase_enabled, cancel_visible,
      cancel_enabled, confirm_enabled>>

\* One step of the keyboard or of the buffer, as C1_LengthFollowsOperations requires it.
C1_Step ==
    /\ Len(digits') \in 0 .. MAX_LENGTH
    /\ (call'.name = "push" /\ Len(call'.text) = 1 /\ Len(digits) < MAX_LENGTH)
          => Len(digits') = Len(digits) + 1
    /\ (call'.name = "pop" /\ Len(digits) > 0) => Len(digits') = Len(digits) - 1
    /\ (call'.name = "pop" /\ Len(digits) = 0) => digits' = digits
    /\ call'.name = "clear" => Len(digits') = 0

\* C1 (SpecPinDots): over any sequence of push, pop and clear from the
\* empty buffer the length stays in 0..50 and follows the operations: a
\* push of one character below capacity adds one, a pop on a non-empty
\* buffer removes one, a pop on the empty buffer changes nothing, a clear
\* leaves length 0.
C1_LengthFollowsOperations == (Len(digits) = 0) /\ [][C1_Step]_vars

\* A pop has taken one character off a buffer that pushes had filled.
C1_Witness == call.name = "pop" /\ Len(digits) = MAX_LENGTH - 1

\* A push whose text does not fit into the buffer.
C2_Overflows == call'.name = "push" /\ Len(digits) + Len(call'.text) > MAX_LENGTH

\* C2 as claimed (SpecPinDots): a push that does not fit truncates: the
\* buffer then holds exactly 50 characters, the previous content followed
\* by the part of the text that fits.
C2_Claimed ==
    [][C2_Overflows =>
          /\ Len(digits') = MAX_LENGTH
          /\ digits' = SubSeq(digits \o call'.text, 1, MAX_LENGTH)]_vars

\* C2 as amended (SpecPinDots): a push that does not fit is dropped as a
\* whole, without an error: the buffer is exactly what it was before.
C2_OverflowRejected == [][C2_Overflows => digits' = digits]_vars

\* A two-character text was pushed onto 49 characters.
C2_Witness ==
    call.name = "push" /\ Len(call.text) = 2 /\ Len(digits) = MAX_LENGTH - 1

\* One step of the keyboard or of the buffer, as C3_FirstClickWins requires it.
C3_Step ==
    LET r == reports'
        first == ~r.confirm /\ ~r.cancel
    IN  /\ r.confirm => (msg' = "Confirmed" /\ digits' = digits)
        /\ (~r.confirm /\ r.cancel) => (msg' = "Cancelled" /\ digits' = digits)
        /\ first => msg' = "None"
        /\ (first /\ r.erase = "Clicked" /\ Len(digits) > 0)
              => Len(digits') = Len(digits) - 1
        /\ (first /\ r.erase = "LongPressed") => digits' = << >>
        /\ (first /\ r.erase = "None" /\ r.digits # {} /\ Len(digits) < MAX_LENGTH)
              => \E i \in r.digits :
                    /\ \A j \in r.digits : i <= j
                    /\ digits' = Append(digits, labels[i])

\* C3 (SpecDispatch): the children are asked in the order confirm, cancel,
\* erase, digit buttons, and the first that reports a click decides the
\* event: when confirm and cancel both report one, the only message is
\* Confirmed.
C3_FirstClickWins == [][C3_Step]_vars

\* Confirm and cancel both reported a click and Confirmed was returned.
C3_Witness == reports.confirm /\ reports.cancel /\ msg = "Confirmed"

\* One step of the keyboard or of the buffer, as C4_OneEffectPerEvent requires it.
C4_Step ==
    /\ msg' \in {"None", "Confirmed", "Cancelled"}
    /\ msg' # "None" => digits' = digits
    /\ digits' # digits => msg' = "None"
    /\ \/ digits' = digits
       \/ \E i \in BtnIdx : digits' = Append(digits, labels[i])
       \/ (Len(digits) > 0 /\ digits' = SubSeq(digits, 1, Len(digits) - 1))
       \/ digits' = << >>

\* C4 (Spec): an event returns Confirmed, returns Cancelled, or mutates
\* the buffer once (one push, one pop or one clear), never two of these.
C4_OneEffectPerEvent == [][C4_Step]_vars

\* Confirmed was returned with digits in the buffer.
C4_Witness == msg = "Confirmed" /\ Len(digits) > 1

\* C5 (Spec): every digit button is enabled iff the buffer is not full.
C5_DigitsEnabledIffNotFull ==
    \A i \in BtnIdx : digit_enabled[i] <=> (Len(digits) < MAX_LENGTH)

\* The buffer is full and the ten digit buttons are disabled.
C5_Witness ==
    Len(digits) = MAX_LENGTH /\ \A i \in BtnIdx : ~digit_enabled[i]

\* C6 (Spec): erase is visible iff the buffer is not empty and enabled iff
\* it is not empty; cancel is visible iff the buffer is empty and cancel
\* is permitted; erase and cancel are never both visible.
C6_EraseCancelExclusive ==
    /\ erase_visible <=> (Len(digits) > 0)
    /\ erase_enabled <=> (Len(digits) > 0)
    /\ cancel_visible <=> (Len(digits) = 0 /\ new_args.allow_cancel)
    /\ ~(erase_visible /\ cancel_visible)

\* An erase click emptied the buffer of a keyboard that permits cancel:
\* cancel is shown again and erase is hidden.
C6_Witness ==
    /\ new_args.allow_cancel
    /\ reports.erase = "Clicked"
    /\ Len(digits) = 0
    /\ cancel_visible
    /\ ~erase_visible

\* C7 (Spec): confirm is enabled iff the buffer is not empty, and
\* Confirmed is never returned while pin() is empty.
C7_ConfirmNeedsPin ==
    /\ confirm_enabled <=> (Len(digits) > 0)
    /\ msg = "Confirmed" => pin(digits) # << >>

\* Confirmed was returned.
C7_Witness == msg = "Confirmed" /\ confirm_enabled

\* One step of the keyboard or of the buffer, as C8_WarningClearedForGood requires it.
C8_Step ==
    /\ (event'.kind = "Timer" /\ warning_timer = <<event'.token>>)
          => ~major_warning'
    /\ ~major_warning => (~major_warning' /\ "major_warning" \notin Render')

\* C8 (Spec): the Timer event that carries the stored handle clears the
\* warning, and a cleared warning stays cleared and is not rendered,
\* whatever events follow.
C8_WarningClearedForGood == [][C8_Step]_vars

\* After the warning of a keyboard built with one was cleared, a long
\* press emptied the buffer again: the major prompt is drawn, not the
\* warning.
C8_Witness ==
    /\ new_args.major_warning
    /\ ~major_warning
    /\ reports.erase = "LongPressed"
    /\ Len(digits) = 0
    /\ "major_prompt" \in Render

\* C9 as claimed (Spec): the keyboard requests at most one timer, so at
\* most one is outstanding, and none without a warning.
C9_Claimed ==
    /\ issued <= 1
    /\ Cardinality(pending) <= 1
    /\ ~new_args.major_warning => issued = 0

\* One step of the keyboard or of the buffer, as C9_TimerPerAttachWhileWarning requires it.
C9_Step ==
    /\ (event'.kind = "Attach" /\ major_warning)
          => (issued' = issued + 1 /\ warning_timer' = <<issued'>>)
    /\ ~(event'.kind = "Attach" /\ major_warning)
          => (issued' = issued /\ warning_timer' = warning_timer)
    /\ ~new_args.major_warning => (issued' = 0 /\ pending' = {})

\* C9 as amended (Spec): a timer is requested by every Attach event that
\* finds the warning still present, and by nothing else; the keyboard
\* stores the handle requested last; a keyboard whose warning is cleared,
\* or that was built without one, requests none.
C9_TimerPerAttachWhileWarning == [][C9_Step]_vars

\* A second Attach requested a second timer while the first is outstanding.
C9_Witness ==
    /\ event.kind = "Attach"
    /\ issued = 2
    /\ pending = {1, 2}
    /\ warning_timer = <<2>>

\* One step of the keyboard or of the buffer, as C10_ForeignTimerIgnored requires it.
C10_Step ==
    (event'.kind = "Timer" /\ warning_timer # <<event'.token>>)
        => UNCHANGED <<major_warning, warning_timer, digits, Controls>>

Count(seq, x) == Cardinality({i \in 1 .. Len(seq) : seq[i] = x})

\* C11 (Spec): in masked mode, n <= 18 digits are drawn as n bullets and
\* nothing else; 19 digits as one dimmed glyph followed by 17 bullets,
\* without the overflow glyph; 20 or more as one overflow glyph, one
\* dimmed glyph and 16 bullets; min(n, 18) glyphs are drawn in all.
C11_MaskedGlyphs ==
    ~display_digits =>
        LET n == Len(digits)
            g == PinDotsRender.dots.glyphs
        IN  /\ PinDotsRender.mode = "dots"
            /\ Len(g) = (IF n < 18 THEN n ELSE 18)
            /\ n <= 18 => \A i \in 1 .. Len(g) : g[i] = "bullet"
            /\ n = 19 => /\ g[1] = "dimmed"
                         /\ \A i \in 2 .. 18 : g[i] = "bullet"
            /\ n >= 20 => /\ g[1] = "overflow"
                          /\ g[2] = "dimmed"
                          /\ \A i \in 3 .. 18 : g[i] = "bullet"
                          /\ Count(g, "bullet") = 16

\* Twenty digits are shown masked.
C11_Witness == ~display_digits /\ Len(digits) = 20

\* The text drawn for the buffer, by the claim: all of it up to 18
\* characters, else its last 18.
C12_Shown(d) ==
    IF Len(d) <= 18 THEN d ELSE [i \in 1 .. 18 |-> d[Len(d) - 18 + i]]

\* C12 (Spec): in reveal mode the text drawn is the whole buffer up to 18
\* characters and exactly its last 18 beyond; appending a character to a
\* buffer of 18 or more drops the first character drawn and appends the
\* new one.
C12_RevealWindow ==
    /\ render_digits(digits) = C12_Shown(digits)
    /\ display_digits =>
          (PinDotsRender.mode = "digits" /\ PinDotsRender.text = C12_Shown(digits))
    /\ \A c \in 0 .. 9 :
          (Len(digits) >= 18 /\ Len(digits) < MAX_LENGTH) =>
              render_digits(Append(digits, c))
                  = Append(Tail(render_digits(digits)), c)

\* 25 digits are revealed, the first of them different from the last 18.
C12_Witness ==
    /\ display_digits
    /\ Len(digits) = 25
    /\ digits[1] # digits[25]
    /\ PinDotsRender.text = SubSeq(digits, 8, 25)

C13_Step ==
    LET down == event'.kind = "TouchStart" /\ event'.pos \in TextboxArea
        up == event'.kind = "TouchEnd"
    IN  /\ down => display_digits'
        /\ up => ~display_digits'
        /\ (up /\ msg' \in {"Confirmed", "Cancelled"}) => ~display_digits'
        /\ (~display_digits /\ display_digits') => down
        /\ (display_digits /\ ~display_digits') => up
        /\ (display_digits' # display_digits) => digits' = digits

\* C13 (Spec): the reveal flag is false at construction; an event sets it
\* exactly when it is a touch-down inside the indicator; it is false after
\* every touch-up, whatever the event returns; no other event changes it,
\* and an event that changes it leaves the PIN buffer as it was.
C13_RevealFlag == (~display_digits) /\ [][C13_Step]_vars

\* The flag, set by a touch on the indicator of a non-empty PIN, has
\* outlived a timer event.
C13_Witness ==
    /\ display_digits
    /\ touch = <<HeaderPos>>
    /\ event.kind = "Timer"
    /\ Len(digits) > 0

C14_IsPermutation(l) ==
    /\ DOMAIN l = 0 .. 9
    /\ \A c \in 0 .. 9 : Cardinality({i \in 0 .. 9 : l[i] = c}) = 1

\* C14 (Spec): the labels of the ten digit buttons are a permutation of
\* the digits 0..9, each exactly once, and no step of the keyboard changes
\* the label of any button.
C14_LabelsFixed == [](C14_IsPermutation(labels)) /\ [][labels' = labels]_vars

\* A shuffled keyboard has been attached and a digit has just been typed
\* on it after others.
C14_Witness ==
    /\ labels[0] # 0
    /\ issued > 0
    /\ Len(digits) > 1
    /\ reports.digits # {}

\* The claim as stated: no step goes from Full to Empty, and Empty is
\* entered only from Partial, by an erase of the last digit or by clear.
C15_Claimed ==
    [][ /\ ~(Len(digits) = MAX_LENGTH /\ Len(digits') = 0)
        /\ (Len(digits) > 0 /\ Len(digits') = 0) =>
              /\ Len(digits) < MAX_LENGTH
              /\ \/ reports'.erase = "Clicked" /\ Len(digits) = 1
                 \/ reports'.erase = "LongPressed" ]_vars

C15_Step ==
    LET b == Dispatch(reports').branch
    IN  /\ (Len(digits) = MAX_LENGTH /\ Len(digits') = 0) => b = "clear"
        /\ (Len(digits) > 0 /\ Len(digits') = 0) =>
              \/ b = "pop" /\ Len(digits) = 1
              \/ b = "clear"
        /\ b = "clear" => Len(digits') = 0
        /\ b # "clear" =>
              /\ Len(digits') >= Len(digits) - 1
              /\ Len(digits') <= Len(digits) + 1

\* C15 (Spec): only a long press on erase (clear) skips a state: it
\* empties the buffer from Partial and from Full alike; every other event
\* changes the length by at most one, so Empty is entered only by an erase
\* click that removes the last digit or by clear, and Full is left for
\* Empty by clear alone.
C15_OnlyClearSkips == [][C15_Step]_vars

\* A long press on erase has emptied the buffer.
C15_Witness ==
    /\ Len(digits) = 0
    /\ reports.erase = "LongPressed"
    /\ event = TouchEndEvent(EraseCancelCell)
    /\ ~erase_visible

C16_IsPrefix(a, b) == Len(a) <= Len(b) /\ a = SubSeq(b, 1, Len(a))

C16_Step ==
    LET rep == reports'
    IN  /\ \A i \in 0 .. 9 :
              (rep.digits = {i} /\ Len(digits) < MAX_LENGTH) =>
                  pin(digits') = Append(pin(digits), labels[i])
        /\ rep.erase = "Clicked" =>
              /\ Len(digits) > 0
              /\ pin(digits') = SubSeq(pin(digits), 1, Len(digits) - 1)
        /\ rep.erase = "LongPressed" => pin(digits') = << >>
        /\ (rep.digits = {} /\ rep.erase = "None") => pin(digits') = pin(digits)
        /\ C16_IsPrefix(digits, digits') \/ C16_IsPrefix(digits', digits)

\* C16 (Spec): a click on digit button i while the buffer is not full
\* appends the label of button i to pin(); an erase click removes its last
\* character; a long press on erase empties it; every other event leaves
\* it unchanged; of the old and the new pin() one is a prefix of the other.
C16_EditedAtEndOnly == [][C16_Step]_vars

\* The last digit button was clicked first, the first one after it: the
\* PIN is the two labels in that order.
C16_Witness ==
    /\ reports.digits = {0}
    /\ digits = <<labels[9], labels[0]>>

C17_Step ==
    /\ Dispatch(reports').branch = "push" => Len(digits) < MAX_LENGTH
    /\ \A i \in 0 .. 9 :
          ( /\ Len(digits) = MAX_LENGTH
            /\ touch = <<DigitCell(i)>>
            /\ event' = TouchEndEvent(DigitCell(i)) ) =>
              /\ reports'.digits = {}
              /\ digits' = digits

\* C17 (Spec): no event makes the keyboard push onto a full buffer: a
\* touch released on the digit button it started on reports no click and
\* leaves the buffer unchanged while the buffer holds 50 characters.
C17_NoPushWhenFull == [][C17_Step]_vars

\* A touch on the first digit button was released on it at 50 digits.
C17_Witness ==
    /\ Len(digits) = MAX_LENGTH
    /\ event = TouchEndEvent(DigitCell(0))
    /\ reports.digits = {}

\* C18 (Spec): Cancelled is the answer to an event only when the buffer
\* is empty and the keyboard was constructed with cancel permitted; where
\* cancel is not permitted the cancel button is hidden, and enabled while
\* the buffer is empty, and Cancelled is never returned.
C18_CancelledOnlyEmptyAndPermitted ==
    /\ msg = "Cancelled" => (Len(digits) = 0 /\ new_args.allow_cancel)
    /\ ~new_args.allow_cancel =>
          /\ msg # "Cancelled"
          /\ ~cancel_visible
          /\ Len(digits) = 0 => cancel_enabled

\* An attached keyboard with an empty buffer returned Cancelled.
C18_Witness ==
    /\ msg = "Cancelled"
    /\ Len(digits) = 0
    /\ event = TouchEndEvent(EraseCancelCell)
    /\ reports.cancel
    /\ issued > 0

\* A keyboard constructed with a warning has been attached.
C19_Attached == new_args.major_warning /\ issued > 0

\* The claim as stated: once attached, the warning is eventually cleared,
\* whatever events are interleaved.
C19_Claimed == C19_Attached ~> ~major_warning

\* C19 (SpecLive): if the timer service delivers every timer requested
\* and the keyboard is attached finitely often only, the warning of an
\* attached keyboard is eventually cleared: the timer requested by the
\* last Attach is the one stored, and its delivery clears the warning.
C19_ClearedOnceAttachesStop ==
    (<>[](event.kind # "Attach")) => (C19_Attached ~> ~major_warning)

\* The warning was cleared by the timer of the second Attach, after the
\* timer of the first had been delivered and ignored.
C19_Witness ==
    /\ C19_Attached
    /\ ~major_warning
    /\ event = TimerEvent(2)
    /\ warning_timer = <<2>>
    /\ pending = {}
    /\ Len(digits) > 0

\* C20 (Spec): digit button i is in cell i of the 4x3 grid for i in 0..8
\* and digit button 9 in cell 10; erase and cancel are in cell 9, confirm
\* in cell 11; no digit button is in cell 9 or 11 and no two digit buttons
\* share a cell; a child answers only a touch released in its cell.
C20_Layout ==
    /\ GRID_ROWS = 4 /\ GRID_COLS = 3 /\ GridCells = 12
    /\ \A i \in 0 .. 8 : DigitCell(i) = i
    /\ DigitCell(9) = 10 /\ DigitCell(9) = RowCol(3, 1)
    /\ EraseCancelCell = 9
    /\ ConfirmCell = 11
    /\ \A i \in 0 .. 9 : DigitCell(i) \notin {9, 11} /\ DigitCell(i) \in 0 .. 11
    /\ \A i, j \in 0 .. 9 : i # j => DigitCell(i) # DigitCell(j)
    /\ \A i \in reports.digits : event.pos = (IF i < 9 THEN i ELSE 10)
    /\ (reports.erase # "None" \/ reports.cancel) => event.pos = 9
    /\ reports.confirm => event.pos = 11

\* The tenth digit button answered a touch released in cell 10.
C20_Witness ==
    /\ event = TouchEndEvent(10)
    /\ reports.digits = {9}
    /\ digits = <<labels[9]>>

=============================================================================
